---- MODULE Spec2Model ----
(***************************************************************************)
(* Model of script/generate_airdrop_csv.py: the conversion tokens_to_wei   *)
(* and the CSV generation generate_csv, run as one or several processes    *)
(* that share the output file airdrop_distribution.csv.                    *)
(*                                                                         *)
(* Python integers are unbounded, so they are modelled as sequences of     *)
(* limbs in base 10^4, least significant first, with no leading zero limb  *)
(* (zero is the empty sequence).  Python floats are IEEE-754 doubles,      *)
(* modelled as m * 2^e with an integer significand m < 2^53 (odd, or zero).*)
(***************************************************************************)
EXTENDS Integers, Sequences, FiniteSets, TLC

-----------------------------------------------------------------------------
(* Unbounded integers (Python int)                                         *)

Base == 10000

RECURSIVE Norm(_)
Norm(s) == IF s = << >> THEN << >>
           ELSE IF s[Len(s)] = 0 THEN Norm(SubSeq(s, 1, Len(s) - 1))
           ELSE s

RECURSIVE NatToBig(_)
NatToBig(n) == IF n = 0 THEN << >> ELSE <<n % Base>> \o NatToBig(n \div Base)

Limb(s, k) == IF k <= Len(s) THEN s[k] ELSE 0

Max(x, y) == IF x >= y THEN x ELSE y

Min(x, y) == IF x <= y THEN x ELSE y

RECURSIVE AddFrom(_, _, _, _)
AddFrom(a, b, k, carry) ==
    IF k > Max(Len(a), Len(b))
    THEN IF carry = 0 THEN << >> ELSE <<carry>>
    ELSE LET t == Limb(a, k) + Limb(b, k) + carry
         IN  <<t % Base>> \o AddFrom(a, b, k + 1, t \div Base)

BigAdd(a, b) == AddFrom(a, b, 1, 0)

(* a * f for a small factor f (f * Base stays within the range of TLC's    *)
(* integers).                                                              *)
RECURSIVE MulSmallFrom(_, _, _, _)
MulSmallFrom(a, f, k, carry) ==
    IF k > Len(a)
    THEN NatToBig(carry)
    ELSE LET t == a[k] * f + carry
         IN  <<t % Base>> \o MulSmallFrom(a, f, k + 1, t \div Base)

BigMulSmall(a, f) == Norm(MulSmallFrom(a, f, 1, 0))

RECURSIVE BigMul(_, _)
BigMul(a, b) ==
    IF a = << >> \/ b = << >> THEN << >>
    ELSE LET rest == BigMul(a, Tail(b))
         IN  BigAdd(BigMulSmall(a, b[1]),
                    IF rest = << >> THEN << >> ELSE <<0>> \o rest)

RECURSIVE BigPow(_, _)
BigPow(b, n) == IF n = 0 THEN <<1>> ELSE BigMul(b, BigPow(b, n - 1))

(* Quotient and remainder of a by a small positive f, from the top limb. *)
RECURSIVE DivSmallFrom(_, _, _, _)
DivSmallFrom(a, f, k, rem) ==
    IF k = 0 THEN [q |-> << >>, r |-> rem]
    ELSE LET t    == rem * Base + a[k]
             rest == DivSmallFrom(a, f, k - 1, t % f)
         IN  [q |-> rest.q \o <<t \div f>>, r |-> rest.r]

BigDivSmall(a, f) ==
    LET d == DivSmallFrom(a, f, Len(a), 0) IN [q |-> Norm(d.q), r |-> d.r]

RECURSIVE LessFrom(_, _, _)
LessFrom(a, b, k) ==
    IF k = 0 THEN FALSE
    ELSE IF a[k] # b[k] THEN a[k] < b[k]
    ELSE LessFrom(a, b, k - 1)

BigLess(a, b) ==
    IF Len(a) # Len(b) THEN Len(a) < Len(b) ELSE LessFrom(a, b, Len(a))

RECURSIVE BigSum(_)
BigSum(s) == IF s = << >> THEN << >> ELSE BigAdd(Head(s), BigSum(Tail(s)))

(* str(int): the decimal digits, most significant first.  The top limb is  *)
(* written without leading zeros, every other limb with all four digits.   *)
LimbDigits(x) == <<x \div 1000, (x \div 100) % 10, (x \div 10) % 10, x % 10>>

RECURSIVE StripZeros(_)
StripZeros(d) == IF Len(d) > 1 /\ Head(d) = 0 THEN StripZeros(Tail(d)) ELSE d

RECURSIVE DigitsFrom(_, _)
DigitsFrom(a, k) == IF k = 0 THEN << >> ELSE LimbDigits(a[k]) \o DigitsFrom(a, k - 1)

IntStr(a) == IF a = << >> THEN <<0>> ELSE StripZeros(DigitsFrom(a, Len(a)))

-----------------------------------------------------------------------------
(* IEEE-754 doubles (Python float), non-negative and in the normal range   *)

MantBits == 53

(* Binary shifts, taken ShiftChunk bits at a time. *)
ShiftChunk == 16

RECURSIVE ShiftLeft(_, _)
ShiftLeft(n, k) ==
    IF k <= ShiftChunk THEN BigMulSmall(n, 2 ^ k)
    ELSE ShiftLeft(BigMulSmall(n, 2 ^ ShiftChunk), k - ShiftChunk)

RECURSIVE ShiftRight(_, _)
ShiftRight(n, k) ==
    IF k <= ShiftChunk THEN BigDivSmall(n, 2 ^ k).q
    ELSE ShiftRight(BigDivSmall(n, 2 ^ ShiftChunk).q, k - ShiftChunk)

TwoPow(k) == ShiftLeft(<<1>>, k)

(* The canonical form of m * 2^e: m odd, or zero.  Factors 2^s are taken   *)
(* out for s = 16, 4, 1 in turn.                                           *)
RECURSIVE NormF(_, _, _)
NormF(m, e, s) ==
    IF m = << >> THEN [m |-> << >>, e |-> 0]
    ELSE IF s = 0 THEN [m |-> m, e |-> e]
    ELSE LET d == BigDivSmall(m, 2 ^ s)
         IN  IF d.r = 0 THEN NormF(d.q, e + s, s) ELSE NormF(m, e, s \div 4)

(* Round (n + d) * 2^e to the nearest double, ties to even, where d = 0    *)
(* when sticky is FALSE and 0 < d < 1 otherwise (then n >= 2^53).  The     *)
(* value is first brought below 2^54 by dropping s = 16, 4, 1 low bits at  *)
(* a time, remembering in sticky whether a dropped bit was set.            *)
RECURSIVE RoundFrom(_, _, _, _)
RoundFrom(n, sticky, e, s) ==
    IF s = 0
    THEN IF BigLess(n, TwoPow(MantBits)) THEN NormF(n, e, ShiftChunk)
         ELSE LET h  == BigDivSmall(n, 2)
                  up == h.r = 1 /\ (sticky \/ h.q[1] % 2 = 1)
              IN  NormF(IF up THEN BigAdd(h.q, <<1>>) ELSE h.q, e + 1, ShiftChunk)
    ELSE IF BigLess(n, TwoPow(MantBits + s)) THEN RoundFrom(n, sticky, e, s \div 4)
    ELSE LET d == BigDivSmall(n, 2 ^ s)
         IN  RoundFrom(d.q, sticky \/ d.r # 0, e + s, s)

RoundToDouble(n, sticky, e) == RoundFrom(n, sticky, e, ShiftChunk)

(* float(int): the nearest double. *)
IntToFloat(n) == RoundToDouble(n, FALSE, 0)

(* A float literal num / 10^scale is read as the nearest double: the       *)
(* quotient is taken with ParseBits extra binary places and then rounded.  *)
ParseBits == 80

RECURSIVE DivPow10(_, _, _)
DivPow10(n, scale, sticky) ==
    IF scale = 0 THEN [q |-> n, sticky |-> sticky]
    ELSE LET d == BigDivSmall(n, 10)
         IN  DivPow10(d.q, scale - 1, sticky \/ d.r # 0)

ParseFloat(num, scale) ==
    LET d == DivPow10(ShiftLeft(NatToBig(num), ParseBits), scale, FALSE)
    IN  RoundToDouble(d.q, d.sticky, 0 - ParseBits)

FloatMul(x, y) == RoundToDouble(BigMul(x.m, y.m), FALSE, x.e + y.e)

FloatAdd(x, y) ==
    LET e == Min(x.e, y.e)
    IN  RoundToDouble(BigAdd(ShiftLeft(x.m, x.e - e), ShiftLeft(y.m, y.e - e)),
                      FALSE, e)

(* int(float): truncation toward zero. *)
FloatToInt(x) == IF x.e >= 0 THEN ShiftLeft(x.m, x.e) ELSE ShiftRight(x.m, 0 - x.e)

-----------------------------------------------------------------------------
(* Python numbers: an int (e = 0, m unbounded) or a float (m * 2^e)        *)

PyInt(n) == [kind |-> "int", m |-> n, e |-> 0]

PyFloat(f) == [kind |-> "float", m |-> f.m, e |-> f.e]

ToFloat(x) == IF x.kind = "int" THEN IntToFloat(x.m) ELSE [m |-> x.m, e |-> x.e]

(* x * y: exact on two ints; otherwise both operands become floats. *)
PyMul(x, y) ==
    IF x.kind = "int" /\ y.kind = "int" THEN PyInt(BigMul(x.m, y.m))
    ELSE PyFloat(FloatMul(ToFloat(x), ToFloat(y)))

(* x + y, likewise. *)
PyAdd(x, y) ==
    IF x.kind = "int" /\ y.kind = "int" THEN PyInt(BigAdd(x.m, y.m))
    ELSE PyFloat(FloatAdd(ToFloat(x), ToFloat(y)))

(* 10 ** decimals, on ints. *)
PyPow10(decimals) == PyInt(BigPow(NatToBig(10), decimals))

(* int(x) *)
PyToInt(x) == IF x.kind = "int" THEN x.m ELSE FloatToInt(ToFloat(x))

(* A number as the source text writes it: the int literal num, or the      *)
(* float literal num / 10^scale (1.1 is num 11, scale 1).                  *)
IntLit(n) == [kind |-> "int", num |-> n, scale |-> 0]

FloatLit(n, sc) == [kind |-> "float", num |-> n, scale |-> sc]

Eval(lit) ==
    IF lit.kind = "int" THEN PyInt(NatToBig(lit.num))
    ELSE PyFloat(ParseFloat(lit.num, lit.scale))

-----------------------------------------------------------------------------
(* tokens_to_wei                                                           *)

DefaultDecimals == 18

(* The variant amount * (10 * decimals). *)
tokens_to_wei_times(amount, decimals) ==
    PyToInt(PyMul(amount, PyMul(PyInt(NatToBig(10)), PyInt(NatToBig(decimals)))))

(* line 11: int(amount * (10 ** decimals)) *)
tokens_to_wei(amount, decimals) == PyToInt(PyMul(amount, PyPow10(decimals)))

-----------------------------------------------------------------------------
(* The data                                                                *)

MaxLen == 2

ConcLen == 1

MaxRuns == 2

MaxAmount == 12

MaxDecimals == 4

(* airdrop_data as the script defines it. *)
HardcodedData ==
    << [address |-> "0x742e8D0aED6e21E2F8daBF7c8D9b3D96aF61f5a4", amount |-> IntLit(1000)],
       [address |-> "0x1234567890123456789012345678901234567890", amount |-> IntLit(500)],
       [address |-> "0xabcdefabcdefabcdefabcdefabcdefabcdefabcd", amount |-> IntLit(750)],
       [address |-> "0x9876543210987654321098765432109876543210", amount |-> IntLit(250)],
       [address |-> "0xfedcba0987654321fedcba0987654321fedcba09", amount |-> IntLit(300)] >>

(* Recipients an edited list ("Add more recipients here") is drawn from:   *)
(* whole and fractional token amounts.                                     *)
Recipients ==
    { [address |-> "0x742e8D0aED6e21E2F8daBF7c8D9b3D96aF61f5a4", amount |-> IntLit(1000)],
      [address |-> "0x1234567890123456789012345678901234567890", amount |-> IntLit(500)],
      [address |-> "0xabcdefabcdefabcdefabcdefabcdefabcdefabcd", amount |-> FloatLit(11, 1)],
      [address |-> "0x9876543210987654321098765432109876543210", amount |-> FloatLit(5, 1)] }

RECURSIVE ListsUpTo(_)
ListsUpTo(n) ==
    IF n = 0 THEN { << >> }
    ELSE LET shorter == ListsUpTo(n - 1)
         IN  shorter \cup { Append(l, r) : l \in { x \in shorter : Len(x) = n - 1 },
                                           r \in Recipients }

DataLists == { HardcodedData } \cup ListsUpTo(MaxLen)

ConcLists == { HardcodedData } \cup ListsUpTo(ConcLen)

AmountLits ==
    { HardcodedData[k].amount : k \in 1..Len(HardcodedData) }
        \cup { r.amount : r \in Recipients }

(* tokens_to_wei(token_amount) of line 33, for every amount of the data:   *)
(* the function is pure, so each value is computed once.                   *)
WeiOf == [lit \in AmountLits |-> tokens_to_wei(Eval(lit), DefaultDecimals)]

-----------------------------------------------------------------------------
(* Text                                                                    *)

DigitChar == <<"0", "1", "2", "3", "4", "5", "6", "7", "8", "9">>

(* The characters of str(n). *)
Chars(digits) == [k \in 1..Len(digits) |-> DigitChar[digits[k] + 1]]

CharDigit(c) == CHOOSE d \in 0..9 : DigitChar[d + 1] = c

(* int(text): four digits make a limb, counted from the right end. *)
DigitAt(text, k) == IF k >= 1 THEN CharDigit(text[k]) ELSE 0

ParseInt(text) ==
    LET len == Len(text)
    IN  Norm([j \in 1..((len + 3) \div 4) |->
                 DigitAt(text, len - 4 * j + 1) * 1000
                     + DigitAt(text, len - 4 * j + 2) * 100
                     + DigitAt(text, len - 4 * j + 3) * 10
                     + DigitAt(text, len - 4 * j + 4)])

(* A line of the file is its two fields; csv.writer joins them with a      *)
(* comma and ends the line.                                                *)
Header == << "address", <<"a", "m", "o", "u", "n", "t">> >>

Hole == << "", << >> >>

StaleLine == << "stale", << >> >>

-----------------------------------------------------------------------------
(* State                                                                   *)

VARIABLES
    airdrop_data,  \* the module-level list of recipients
    disk,          \* airdrop_distribution.csv: the lines the file holds
    pc,            \* per invocation: where its control is
    idx,           \* per invocation: recipients the loop has handled
    handle,        \* per invocation: "none", "open" or "closed" csvfile
    buf,           \* per invocation: lines written to csvfile, not yet on disk
    pos,           \* per invocation: the file offset of csvfile, in lines
    out,           \* per invocation: the lines printed on standard output
    exit,          \* per invocation: exit status, -1 until the process ends
    call           \* a direct call of tokens_to_wei and its result

vars == <<airdrop_data, disk, pc, idx, handle, buf, pos, out, exit, call>>

(* One process per invocation of the script. *)
Procs == 1..MaxRuns

(* The two invocations that run at once. *)
ConcProcs == {1, 2}

Ended(p) == pc[p] \in {"done", "failed"}

NoCall == [state |-> "none", amount |-> IntLit(0), given |-> FALSE,
           decimals |-> 0, result |-> << >>]

IdleProcs ==
    /\ pc = [p \in Procs |-> "idle"]
    /\ idx = [p \in Procs |-> 0]
    /\ handle = [p \in Procs |-> "none"]
    /\ buf = [p \in Procs |-> << >>]
    /\ pos = [p \in Procs |-> 0]
    /\ out = [p \in Procs |-> << >>]
    /\ exit = [p \in Procs |-> -1]

(* The file may be absent (no lines) or left over from an earlier tool. *)
Init ==
    /\ airdrop_data \in DataLists
    /\ disk \in { << >>, <<StaleLine, StaleLine>> }
    /\ IdleProcs
    /\ call = NoCall

-----------------------------------------------------------------------------
(* The file                                                                *)

(* The variant open(..., 'a'): the content is kept and written after. *)
OpenAppend(d) == [content |-> d, pos |-> Len(d)]

(* open(..., 'w'): the file is cut to no lines and written from offset 0. *)
OpenWrite(d) == [content |-> << >>, pos |-> 0]

(* Lines written at offset at; a gap before them reads as empty lines. *)
WriteAt(d, at, lines) ==
    [k \in 1..Max(Len(d), at + Len(lines)) |->
        IF k > at /\ k <= at + Len(lines) THEN lines[k - at]
        ELSE IF k <= Len(d) THEN d[k]
        ELSE Hole]

(* The row of line 34 for a recipient: the address and str(wei_amount). *)
Row(r) == << r.address, Chars(IntStr(WeiOf[r.amount])) >>

(* The variant that walks the list backwards. *)
RecipientReversed(data, i) == data[Len(data) - i]

(* The recipient the loop of line 32 takes after it has handled i. *)
Recipient(data, i) == data[i + 1]

(* The variant that stops one recipient early. *)
LoopOverEarly(data, i) == i >= Len(data) - 1

(* Whether the loop of line 32 is over after i recipients. *)
LoopOver(data, i) == i = Len(data)

(* The variant without a with block: an error leaves csvfile open. *)
HandleLeftOpen == "open"

(* What leaving the with block on an error does to csvfile. *)
HandleAfterError == "closed"

(* The variant in which control goes on with the buffer not yet written. *)
CloseNoFlush(d, at, lines) == d

(* What the close at the end of the with block puts on disk. *)
CloseFlush(d, at, lines) == WriteAt(d, at, lines)

(* The variant that catches the error and carries on to the summary. *)
OpenErrorSwallowed == [pc |-> "print1", exit |-> -1]

(* Where control goes when open() raises: the error is not caught. *)
OpenError == [pc |-> "failed", exit |-> 1]

-----------------------------------------------------------------------------
(* generate_csv, one step at a time                                        *)

(* python generate_airdrop_csv.py: invocations start in order. *)
Invoke(p) ==
    /\ pc[p] = "idle"
    /\ \A q \in Procs : q < p => pc[q] # "idle"
    /\ pc' = [pc EXCEPT ![p] = "open"]
    /\ UNCHANGED <<airdrop_data, disk, idx, handle, buf, pos, out, exit, call>>

(* An invocation started when no other one is running. *)
InvokeAlone(p) ==
    /\ \A q \in Procs : pc[q] = "idle" \/ Ended(q)
    /\ Invoke(p)

(* line 25: open succeeds *)
Open(p) ==
    /\ pc[p] = "open"
    /\ LET f == OpenWrite(disk)
       IN  /\ disk' = f.content
           /\ pos' = [pos EXCEPT ![p] = f.pos]
    /\ handle' = [handle EXCEPT ![p] = "open"]
    /\ pc' = [pc EXCEPT ![p] = "header"]
    /\ UNCHANGED <<airdrop_data, idx, buf, out, exit, call>>

(* line 25: open raises OSError, which nothing catches *)
OpenFail(p) ==
    /\ pc[p] = "open"
    /\ pc' = [pc EXCEPT ![p] = OpenError.pc]
    /\ exit' = [exit EXCEPT ![p] = OpenError.exit]
    /\ UNCHANGED <<airdrop_data, disk, idx, handle, buf, pos, out, call>>

(* line 29 *)
WriteHeader(p) ==
    /\ pc[p] = "header"
    /\ buf' = [buf EXCEPT ![p] = Append(@, Header)]
    /\ pc' = [pc EXCEPT ![p] = "rows"]
    /\ UNCHANGED <<airdrop_data, disk, idx, handle, pos, out, exit, call>>

(* lines 32-34: one iteration of the loop *)
WriteRow(p) ==
    /\ pc[p] = "rows"
    /\ ~LoopOver(airdrop_data, idx[p])
    /\ buf' = [buf EXCEPT ![p] = Append(@, Row(Recipient(airdrop_data, idx[p])))]
    /\ idx' = [idx EXCEPT ![p] = @ + 1]
    /\ UNCHANGED <<airdrop_data, disk, pc, handle, pos, out, exit, call>>

(* csvfile is buffered: what was written reaches the disk when the buffer  *)
(* fills, which may be between any two writes.                             *)
Flush(p) ==
    /\ handle[p] = "open"
    /\ buf[p] # << >>
    /\ disk' = WriteAt(disk, pos[p], buf[p])
    /\ pos' = [pos EXCEPT ![p] = @ + Len(buf[p])]
    /\ buf' = [buf EXCEPT ![p] = << >>]
    /\ UNCHANGED <<airdrop_data, pc, idx, handle, out, exit, call>>

(* lines 34-35: the loop is over, the with block closes csvfile *)
Close(p) ==
    /\ pc[p] = "rows"
    /\ LoopOver(airdrop_data, idx[p])
    /\ disk' = CloseFlush(disk, pos[p], buf[p])
    /\ pos' = [pos EXCEPT ![p] = @ + Len(buf[p])]
    /\ buf' = [buf EXCEPT ![p] = << >>]
    /\ handle' = [handle EXCEPT ![p] = "closed"]
    /\ pc' = [pc EXCEPT ![p] = "print1"]
    /\ UNCHANGED <<airdrop_data, idx, out, exit, call>>

(* lines 29-35: a write (or the final flush) raises OSError; the with      *)
(* block closes csvfile, part of what was buffered may reach the disk, and *)
(* the error leaves generate_csv and ends the process, whose loop position *)
(* and file offset are gone with it.                                       *)
WriteFail(p) ==
    /\ pc[p] \in {"header", "rows"}
    /\ \E k \in 0..Len(buf[p]) :
           disk' = WriteAt(disk, pos[p], SubSeq(buf[p], 1, k))
    /\ buf' = [buf EXCEPT ![p] = << >>]
    /\ idx' = [idx EXCEPT ![p] = 0]
    /\ pos' = [pos EXCEPT ![p] = 0]
    /\ handle' = [handle EXCEPT ![p] = HandleAfterError]
    /\ pc' = [pc EXCEPT ![p] = "failed"]
    /\ exit' = [exit EXCEPT ![p] = 1]
    /\ UNCHANGED <<airdrop_data, out, call>>

(* sum(amount for _, amount in airdrop_data): from 0, left to right, each  *)
(* float addition rounded (CPython up to 3.11; from 3.12 on sum() carries  *)
(* a compensation term over floats, which can change the last bit of a sum *)
(* of three or more floats, never of two).                                 *)
RECURSIVE SumFrom(_, _, _)
SumFrom(data, k, acc) ==
    IF k > Len(data) THEN acc
    ELSE SumFrom(data, k + 1, PyAdd(acc, Eval(data[k].amount)))

TotalTokens(data) == SumFrom(data, 1, PyInt(<< >>))

(* line 36 *)
Print1(p) ==
    /\ pc[p] = "print1"
    /\ out' = [out EXCEPT ![p] =
                 Append(@, [line |-> "recipients",
                            value |-> PyInt(NatToBig(Len(airdrop_data)))])]
    /\ pc' = [pc EXCEPT ![p] = "print2"]
    /\ UNCHANGED <<airdrop_data, disk, idx, handle, buf, pos, exit, call>>

(* lines 39-41 *)
Print2(p) ==
    /\ pc[p] = "print2"
    /\ out' = [out EXCEPT ![p] =
                 Append(@, [line |-> "total_tokens",
                            value |-> TotalTokens(airdrop_data)])]
    /\ pc' = [pc EXCEPT ![p] = "print3"]
    /\ UNCHANGED <<airdrop_data, disk, idx, handle, buf, pos, exit, call>>

(* line 42, with total_wei of line 40; the script then ends *)
Print3(p) ==
    /\ pc[p] = "print3"
    /\ out' = [out EXCEPT ![p] =
                 Append(@, [line |-> "total_wei",
                            value |-> PyInt(tokens_to_wei(TotalTokens(airdrop_data),
                                                          DefaultDecimals))])]
    /\ pc' = [pc EXCEPT ![p] = "done"]
    /\ exit' = [exit EXCEPT ![p] = 0]
    /\ UNCHANGED <<airdrop_data, disk, idx, handle, buf, pos, call>>

Step(p) ==
    \/ Open(p)
    \/ OpenFail(p)
    \/ WriteHeader(p)
    \/ WriteRow(p)
    \/ Flush(p)
    \/ Close(p)
    \/ WriteFail(p)
    \/ Print1(p)
    \/ Print2(p)
    \/ Print3(p)

(* Invocations one after the other. *)
Next == \E p \in Procs : InvokeAlone(p) \/ Step(p)

Spec == Init /\ [][Next]_vars

(* Two invocations with nothing to coordinate them. *)
InitConc ==
    /\ airdrop_data \in ConcLists
    /\ disk = << >>
    /\ IdleProcs
    /\ call = NoCall

NextConc == \E p \in ConcProcs : Invoke(p) \/ Step(p)

SpecConc == InitConc /\ [][NextConc]_vars

-----------------------------------------------------------------------------
(* tokens_to_wei called directly                                           *)

CallAmounts ==
    { IntLit(a) : a \in 0..MaxAmount } \cup AmountLits

InitConv ==
    /\ airdrop_data = HardcodedData
    /\ disk = << >>
    /\ IdleProcs
    /\ \E a \in CallAmounts, g \in BOOLEAN, d \in 0..MaxDecimals :
           /\ g \/ d = 0
           /\ call = [state |-> "pending", amount |-> a, given |-> g,
                      decimals |-> d, result |-> << >>]

(* decimals=18 when the caller leaves it out (line 9) *)
Decimals(c) == IF c.given THEN c.decimals ELSE DefaultDecimals

Call ==
    /\ call.state = "pending"
    /\ call' = [call EXCEPT !.state = "returned",
                            !.result = tokens_to_wei(Eval(call.amount), Decimals(call))]
    /\ UNCHANGED <<airdrop_data, disk, pc, idx, handle, buf, pos, out, exit>>

NextConv == Call

SpecConv == InitConv /\ [][NextConv]_vars

-----------------------------------------------------------------------------
(* Properties                                                              *)

N == Len(airdrop_data)

(* p is the invocation that ran last. *)
Latest(p) == pc[p] # "idle" /\ \A q \in Procs : q > p => pc[q] = "idle"

(* p ran last and generate_csv returned. *)
Completed(p) == Latest(p) /\ pc[p] = "done"

(* The file one successful run leaves: the header, then a row per recipient. *)
FileAfterOneRun == <<Header>> \o [k \in 1..N |-> Row(airdrop_data[k])]

(* The base-unit amounts of the data rows on disk, read back from their text. *)
RowAmounts == [k \in 1..(Len(disk) - 1) |-> ParseInt(disk[k + 1][2])]

RECURSIVE NatDigits(_)
NatDigits(n) == IF n < 10 THEN <<n>> ELSE NatDigits(n \div 10) \o <<n % 10>>

(* The decimal digits of a * 10^d: those of a, then d zeros. *)
ScaledDigits(a, d) == IF a = 0 THEN <<0>> ELSE NatDigits(a) \o [k \in 1..d |-> 0]

(* amount * 10^18 in exact arithmetic, for a literal num / 10^scale. *)
ExactWeiOf ==
    [lit \in AmountLits |->
        BigMul(NatToBig(lit.num), BigPow(NatToBig(10), DefaultDecimals - lit.scale))]

(* C1: for an integer amount a >= 0 and decimals d >= 0, tokens_to_wei     *)
(* returns exactly a * 10^d, and a * 10^18 when decimals is left out.      *)
C1_ExactScaling ==
    (call.state = "returned" /\ call.amount.kind = "int") =>
        /\ IntStr(call.result) = ScaledDigits(call.amount.num, Decimals(call))
        /\ call.given => call.result = NatToBig(call.amount.num * 10 ^ call.decimals)

C1_Witness ==
    /\ call.state = "returned"
    /\ call.amount = IntLit(1000)
    /\ ~call.given
    /\ IntStr(call.result) = <<1, 0, 0, 0, 0, 0, 0, 0, 0, 0, 0, 0, 0, 0, 0, 0, 0, 0, 0, 0, 0, 0>>

(* C2: once generate_csv has completed, the base-unit total it printed     *)
(* equals the sum of the amounts of the data rows in the file.             *)
C2_TotalMatchesRows ==
    \A p \in Procs :
        Completed(p) => out[p][3].value.m = BigSum(RowAmounts)

(* C3: every data row carries the recipient's amount times 10^18 exactly,  *)
(* for whole and for fractional amounts.                                   *)
C3_RowsExact ==
    \A p \in Procs :
        Completed(p) =>
            \A k \in 1..N : ParseInt(disk[k + 1][2]) = ExactWeiOf[airdrop_data[k].amount]

(* C4: after any number of successful runs one after the other the file is *)
(* what a single run leaves: one header, no row twice.                     *)
C4_RerunOverwrites ==
    \A p \in Procs : Completed(p) => disk = FileAfterOneRun

C4_Witness ==
    /\ N >= 1
    /\ pc[1] = "done"
    /\ Completed(2)
    /\ disk = FileAfterOneRun

(* C5: after a successful run on N recipients the file has N + 1 lines,    *)
(* the header is the first and occurs once, and each recipient has as many *)
(* rows as it has entries in the list.                                     *)
C5_LineCount ==
    \A p \in Procs :
        Completed(p) =>
            /\ Len(disk) = N + 1
            /\ disk[1] = Header
            /\ Cardinality({k \in 1..Len(disk) : disk[k] = Header}) = 1
            /\ \A r \in Recipients \cup {airdrop_data[k] : k \in 1..N} :
                   Cardinality({k \in 2..Len(disk) : disk[k] = Row(r)})
                       = Cardinality({k \in 1..N : airdrop_data[k] = r})

C5_Witness ==
    /\ airdrop_data = HardcodedData
    /\ Completed(1)
    /\ Len(disk) = 6

(* What invocation p has written so far: on disk up to its offset, then    *)
(* its buffer.                                                             *)
Written(p) == SubSeq(disk, 1, pos[p]) \o buf[p]

(* C6: the i-th data row holds the i-th recipient, and at every point of   *)
(* the writing the rows written so far are a prefix of the list.           *)
C6_OrderKept ==
    \A p \in Procs :
        /\ (Latest(p) /\ handle[p] = "open") =>
               /\ Len(Written(p)) <= N + 1
               /\ \A k \in 2..Len(Written(p)) :
                      Written(p)[k][1] = airdrop_data[k - 1].address
        /\ Completed(p) =>
               \A k \in 1..N : disk[k + 1][1] = airdrop_data[k].address

C6_Witness ==
    /\ airdrop_data = HardcodedData
    /\ handle[1] = "open"
    /\ idx[1] = 3
    /\ Len(disk) = 2
    /\ Len(buf[1]) = 2

(* C7: when open fails the run ends there: the error is not caught, the    *)
(* exit status is not zero, the file is left as it was, nothing is         *)
(* printed, and the failed run takes no further step (no retry).           *)
C7_OpenFailureAborts ==
    [][\A p \in Procs :
          /\ (pc[p] = "open" /\ pc'[p] # "open" /\ handle'[p] # "open") =>
                 /\ pc'[p] = "failed"
                 /\ exit'[p] # 0 /\ exit'[p] # -1
                 /\ disk' = disk
                 /\ out'[p] = << >>
                 /\ buf'[p] = << >>
          /\ pc[p] = "failed" =>
                 /\ pc'[p] = "failed"
                 /\ out'[p] = out[p]
                 /\ handle'[p] = handle[p]]_vars

C7_Witness ==
    /\ N >= 1
    /\ pc[1] = "done"
    /\ pc[2] = "failed"
    /\ handle[2] = "none"
    /\ exit[2] = 1
    /\ out[2] = << >>
    /\ disk = FileAfterOneRun

(* C8: csvfile is not open once control has left the with block, whether   *)
(* the block ended normally or by an error.                                *)
C8_ClosedOnExit ==
    \A p \in Procs :
        pc[p] \in {"print1", "print2", "print3", "done", "failed"} =>
            handle[p] # "open"

C8_Witness ==
    /\ pc[1] = "failed"
    /\ handle[1] = "closed"
    /\ Len(disk) >= 2
    /\ disk[1] = Header

SummaryOrder == <<"recipients", "total_tokens", "total_wei">>

C10_SummaryAfterFile ==
    \A p \in Procs :
        /\ Len(out[p]) <= 3
        /\ \A k \in 1..Len(out[p]) : out[p][k].line = SummaryOrder[k]
        /\ pc[p] = "failed" => out[p] = << >>
        /\ pc[p] = "done" => Len(out[p]) = 3
        /\ (Latest(p) /\ out[p] # << >>) =>
               /\ handle[p] = "closed"
               /\ buf[p] = << >>
               /\ disk = FileAfterOneRun

C10_Witness ==
    /\ N >= 1
    /\ Completed(1)
    /\ Len(out[1]) = 3
    /\ disk = FileAfterOneRun

====
